---- MODULE Spec2Model ----
(***************************************************************************)
(* Image localization pipeline of jee-papers: the image downloader and     *)
(* registry generator (Extractor + Fetcher), the localizer (Rewriter), the *)
(* registry load of verify-images.js (Verifier), and the URL               *)
(* canonicalization the three share.                                       *)
(*                                                                         *)
(* Strings are sequences of tokens.  A token is a piece of text that no    *)
(* regular expression of the program splits: "/", "?", ".", "_", the       *)
(* scheme "https:" / "http:", and words such as "fly", "@width", "img".    *)
(* No token is a line terminator, so the "." of /\?.*$/ matches them all.  *)
(***************************************************************************)
EXTENDS Integers, Sequences, FiniteSets, TLC

VARIABLES
    corpus,          \* raw/<examType>/<file>.json: the questions of the raw record
    rawParses,       \* whether JSON.parse accepts the text of the raw file
    disk,            \* images/ tree: local path -> [url, complete] of the bytes it holds
    saved,           \* .tmp/images.json: <<document>>, or <<>> while the file is absent
    pc,              \* position of the downloader process in main()
    qi,              \* questionIndex of processJsonFile
    imageRegistry,   \* the in-memory Map, in insertion order
    missingImages,   \* main(): the entries filtered as pending before the download loop
    di,              \* main(): loop index i of the download loop
    downloadedCount, \* module counter
    skippedCount,    \* module counter
    failedCount,     \* module counter
    attempts,        \* history: urls passed to downloadImage in this run, in order
    fetched,         \* history: urls for which fetch() was issued in this run
    existedAtStart,  \* history: local paths present when this run started
    written,         \* history: <<url, path>> streamed to by this run
    savedAtStart,    \* history: .tmp/images.json as it was when this run started
    cu,              \* canonicalization harness: the src value under test
    cplain,          \* canonicalization harness: the plain URL cu was decorated from
    cr,              \* canonicalization harness: results computed so far
    lpc,             \* position of the localizer process in main()
    imageMap,        \* localizer: the url -> localPath Map, in insertion order
    localized,       \* raw-local-images/<examType>/<file>.json: <<questions>>, or <<>>
    totalReplacements,    \* localizer: module counter
    localizeMissingImages, \* localizer: module counter missingImages
    totalFailed,     \* localizer: main()'s count of files processJsonFile failed on
    vpc,             \* position of the verifier process in main()
    verifyImageMap,  \* verifier: main()'s imageMap
    allResults,      \* verifier: main()'s allResults
    totalChecks,     \* verifier: module counter
    matchedImages,   \* verifier: module counter
    mismatchedImages, \* verifier: module counter
    missingLocalFiles \* verifier: module counter

vars == <<corpus, rawParses, disk, saved, pc, qi, imageRegistry, missingImages, di,
          downloadedCount, skippedCount, failedCount, attempts, fetched,
          existedAtStart, written, savedAtStart, cu, cplain, cr,
          lpc, imageMap, localized, totalReplacements, localizeMissingImages,
          totalFailed, vpc, verifyImageMap, allResults, totalChecks, matchedImages,
          mismatchedImages, missingLocalFiles>>

pipelineVars == <<corpus, rawParses, disk, saved, pc, qi, imageRegistry, missingImages,
                  di, downloadedCount, skippedCount, failedCount, attempts, fetched,
                  existedAtStart, written, savedAtStart>>

harnessVars == <<cu, cplain, cr>>

localizeVars == <<lpc, imageMap, localized, totalReplacements, localizeMissingImages,
                  totalFailed>>

verifyVars == <<vpc, verifyImageMap, allResults, totalChecks, matchedImages,
                mismatchedImages, missingLocalFiles>>

-----------------------------------------------------------------------------
(* Bounds *)

MaxQuestions == 2

MaxSegs == 4

-----------------------------------------------------------------------------
(* Token strings *)

RECURSIVE IndexFrom(_, _, _)
\* First index i >= from at which pat occurs in s, or 0.
IndexFrom(s, pat, from) ==
    IF from + Len(pat) - 1 > Len(s) THEN 0
    ELSE IF SubSeq(s, from, from + Len(pat) - 1) = pat THEN from
    ELSE IndexFrom(s, pat, from + 1)

IndexOf(s, pat) == IndexFrom(s, pat, 1)

Contains(s, pat) == IndexOf(s, pat) # 0

\* The sequence s itself, as a tuple whose elements are computed once.
AsTuple(s) == s \o <<>>

RECURSIVE Flatten(_)
Flatten(ss) == IF ss = <<>> THEN <<>> ELSE Head(ss) \o Flatten(Tail(ss))

\* "/fly/@width/"
ResizeSegment == <<"/", "fly", "/", "@width", "/">>

\* String.prototype.replace(/\/fly\/@width\//, '/'): the regular expression has
\* no g flag, so only the first occurrence is replaced.
ReplaceResize(s) ==
    LET i == IndexOf(s, ResizeSegment)
    IN  IF i = 0 THEN s
        ELSE SubSeq(s, 1, i - 1) \o <<"/">> \o SubSeq(s, i + 5, Len(s))

\* String.prototype.replace(/\?.*$/, ''): everything from the first "?" on.
StripQuery(s) ==
    LET i == IndexOf(s, <<"?">>)
    IN  IF i = 0 THEN s ELSE SubSeq(s, 1, i - 1)

-----------------------------------------------------------------------------
(* Canonicalization, as each component writes it *)

\* download-images: extractFromContent, the src fallback
extractNormalizedUrl(src) == StripQuery(ReplaceResize(src))

\* localize-images: replaceImageUrls, the src branch
replaceNormalizedUrl(src) == StripQuery(ReplaceResize(src))

\* getNormalizedUrl without the query-string replace.
getNormalizedUrl_KeepQuery(url) == ReplaceResize(url)

\* verify-images.js: getNormalizedUrl
getNormalizedUrl(url) == StripQuery(ReplaceResize(url))

-----------------------------------------------------------------------------
(* new URL(imageUrl) and the local path *)

Schemes == {"https:", "http:"}

NullPath == <<"null">>

RECURSIVE SkipSlashes(_)
\* WHATWG URL, special schemes: every "/" after the scheme is skipped before
\* the authority.
SkipSlashes(s) ==
    IF s # <<>> /\ Head(s) = "/" THEN SkipSlashes(Tail(s)) ELSE s

RECURSIVE TakeUntil(_, _)
\* The longest prefix of s holding no token of stop.
TakeUntil(s, stop) ==
    IF s = <<>> \/ Head(s) \in stop THEN <<>>
    ELSE <<Head(s)>> \o TakeUntil(Tail(s), stop)

\* new URL(imageUrl): [ok, hostname, pathname].  An input without a scheme
\* (a relative reference) or without a host throws.
ParseUrl(imageUrl) ==
    IF imageUrl = <<>> \/ Head(imageUrl) \notin Schemes
    THEN [ok |-> FALSE, hostname |-> <<>>, pathname |-> <<>>]
    ELSE LET auth == SkipSlashes(Tail(imageUrl))
             host == TakeUntil(auth, {"/", "?"})
             rest == SubSeq(auth, Len(host) + 1, Len(auth))
             p    == TakeUntil(rest, {"?"})
         IN  [ok       |-> host # <<>>,
              hostname |-> host,
              pathname |-> IF p = <<>> THEN <<"/">> ELSE p]

\* The hostname used as it stands.
ReplaceDots_Keep(hostname) == hostname

\* url.hostname.replace(/\./g, '_')
ReplaceDots(hostname) ==
    [i \in 1..Len(hostname) |-> IF hostname[i] = "." THEN "_" ELSE hostname[i]]

RECURSIVE CollapseSlashes(_)
\* path.join normalizes its result: a run of "/" becomes one "/".
CollapseSlashes(s) ==
    IF Len(s) < 2 THEN s
    ELSE IF s[1] = "/" /\ s[2] = "/" THEN CollapseSlashes(Tail(s))
    ELSE <<Head(s)>> \o CollapseSlashes(Tail(s))

\* path.join(IMAGES_DIR, hostname, pathname), written relative to ROOT_DIR.
PathJoin(hostname, pathname) ==
    CollapseSlashes(<<"images", "/">> \o hostname \o <<"/">> \o pathname)

\* getLocalImagePath(imageUrl): NullPath when new URL throws.
getLocalImagePath(imageUrl) ==
    LET parsed == ParseUrl(imageUrl)
    IN  IF ~parsed.ok THEN NullPath
        ELSE PathJoin(ReplaceDots(parsed.hostname), parsed.pathname)

\* path.relative(ROOT_DIR, localPath): the resolved path carries no trailing "/".
PathRelative(localPath) ==
    IF Len(localPath) > 1 /\ localPath[Len(localPath)] = "/"
    THEN SubSeq(localPath, 1, Len(localPath) - 1)
    ELSE localPath

-----------------------------------------------------------------------------
(* Image tags and raw records *)

\* An <img ...> tag is the sequence of its attributes, in source order.
Attr(name, value) == [name |-> name, value |-> value]

\* The attribute names in which the text  src="  occurs: the regular expression
\* /src="([^"]+)"/ is not anchored, so it also matches inside data-orsrc="...".
SrcNames == {"src", "data-orsrc"}

OrsrcNames == {"data-orsrc"}

RECURSIVE MatchAttr(_, _)
\* attributes.match(/<name>="([^"]+)"/)[1]: the value of the first attribute
\* whose text matches, <<>> when there is no match ([^"]+ needs one character).
MatchAttr(attributes, names) ==
    IF attributes = <<>> THEN <<>>
    ELSE IF Head(attributes).name \in names /\ Head(attributes).value # <<>>
    THEN Head(attributes).value
    ELSE MatchAttr(Tail(attributes), names)

Origin == <<"https:", "/", "/", "cdn", ".", "ex">>

UrlPlain   == Origin \o <<"/", "img", "/", "q1">>
UrlOther   == Origin \o <<"/", "img", "/", "q2">>
UrlResized == Origin \o <<"/", "fly", "/", "@width", "/", "img", "/", "q1", "?", "v">>
UrlQuery   == UrlPlain \o <<"?", "v">>
UrlHttp    == <<"http:", "/", "/", "cdn", ".", "ex", "/", "img", "/", "q1">>
UrlSlashes == Origin \o <<"/", "img", "/", "/", "q1">>
UrlRelative == <<"/", "img", "/", "q1">>

TagPlain    == <<Attr("src", UrlPlain)>>
TagOther    == <<Attr("src", UrlOther), Attr("alt", <<"q2">>)>>
TagResized  == <<Attr("src", UrlResized)>>
TagMarked   == <<Attr("src", UrlResized), Attr("data-orsrc", UrlPlain)>>
TagMarkedFirst == <<Attr("data-orsrc", UrlOther), Attr("src", UrlOther)>>
TagMarkedQuery == <<Attr("src", UrlResized), Attr("data-orsrc", UrlQuery)>>
TagHttp     == <<Attr("src", UrlHttp)>>
TagSlashes  == <<Attr("src", UrlSlashes)>>
TagRelative == <<Attr("src", UrlRelative)>>

\* question.en of a raw question: content, options[].content and explanation,
\* each reduced to the <img> tags it holds.
Question(content, options, explanation) ==
    [content |-> content, options |-> options, explanation |-> explanation]

QuestionPool ==
    { Question(<<t>>, <<>>, <<>>) :
        t \in {TagPlain, TagResized, TagMarkedFirst, TagMarkedQuery, TagHttp,
               TagSlashes, TagRelative} }
    \cup { Question(<<TagPlain>>, <<<<TagOther>>>>, <<TagMarked>>),
           Question(<<TagPlain, TagPlain>>, <<>>, <<>>) }

Corpora == UNION { [1..n -> QuestionPool] : n \in 1..MaxQuestions }

-----------------------------------------------------------------------------
(* The registry: download-images *)

NoError == "undefined"

Site(questionIndex, location) ==
    [questionIndex |-> questionIndex, location |-> location]

Urls(reg) == { reg[i].url : i \in DOMAIN reg }

\* imageRegistry.get(url)
Get(reg, url) == reg[CHOOSE i \in DOMAIN reg : reg[i].url = url]

\* registerImage without the imageRegistry.has(url) test: a new entry per call.
registerImage_NoDedup(reg, url, site) ==
    IF url = <<>> \/ getLocalImagePath(url) = NullPath THEN reg
    ELSE Append(reg, [url       |-> url,
                      localPath |-> PathRelative(getLocalImagePath(url)),
                      status    |-> "pending",
                      error     |-> NoError,
                      usedIn    |-> <<site>>])

\* registerImage(url, location)
registerImage(reg, url, site) ==
    IF url = <<>> THEN reg
    ELSE LET localPath == getLocalImagePath(url)
         IN  IF localPath = NullPath THEN reg
             ELSE LET r1 == IF url \in Urls(reg) THEN reg
                            ELSE Append(reg, [url       |-> url,
                                              localPath |-> PathRelative(localPath),
                                              status    |-> "pending",
                                              error     |-> NoError,
                                              usedIn    |-> <<>>])
                  IN  [i \in DOMAIN r1 |->
                         IF r1[i].url = url
                         THEN [r1[i] EXCEPT !.usedIn = Append(@, site)]
                         ELSE r1[i]]

\* The identifier extractFromContent registers for one tag: data-orsrc as it
\* stands when present, else src normalized; <<>> when the tag has neither.
extractIdentifier(attributes) ==
    LET dataOrsrc == MatchAttr(attributes, OrsrcNames)
    IN  IF dataOrsrc # <<>> THEN dataOrsrc
        ELSE LET src == MatchAttr(attributes, SrcNames)
             IN  IF src # <<>> THEN extractNormalizedUrl(src) ELSE <<>>

RECURSIVE extractFromContent(_, _, _)
\* extractFromContent(content, location): every <img> of content, in order.
extractFromContent(reg, content, site) ==
    IF content = <<>> THEN reg
    ELSE extractFromContent(registerImage(reg, extractIdentifier(Head(content)), site),
                            Tail(content), site)

RECURSIVE extractFromOptions(_, _, _, _)
\* question.options.forEach((option, idx) => extractFromContent(option.content, ...))
extractFromOptions(reg, options, idx, questionIndex) ==
    IF idx > Len(options) THEN reg
    ELSE extractFromOptions(
             extractFromContent(reg, options[idx], Site(questionIndex, <<"option", idx>>)),
             options, idx + 1, questionIndex)

\* extractAndRegisterImages(questionData, examType, examKey, questionIndex)
extractAndRegisterImages(reg, question, questionIndex) ==
    LET r1 == extractFromContent(reg, question.content, Site(questionIndex, <<"question">>))
        r2 == extractFromOptions(r1, question.options, 1, questionIndex)
    IN  extractFromContent(r2, question.explanation, Site(questionIndex, <<"explanation">>))

-----------------------------------------------------------------------------
(* The images tree and the persisted registry *)

NoFile == <<>>

EmptyDisk == [p \in {} |-> [url |-> <<>>, complete |-> FALSE]]

\* imageExists that never finds the file.
imageExists_Never(d, localPath) == FALSE

\* imageExists(localPath): fs.access succeeds
imageExists(d, localPath) == localPath \in DOMAIN d

WriteFile(d, localPath, url, complete) ==
    [p \in DOMAIN d \cup {localPath} |->
        IF p = localPath THEN [url |-> url, complete |-> complete] ELSE d[p]]

\* What one call of downloadImage can meet.
Outcomes == {"mkdir_error", "network_error", "http_error", "stream_error", "ok"}

\* downloadImage issues fetch() unless fs.mkdir already threw.
IssuesFetch(outcome) == outcome # "mkdir_error"

\* downloadImage: the local file after the call.  createWriteStream truncates
\* the file once the response is ok; a failing pipeline leaves what was written.
DiskAfterDownload(d, url, localPath, outcome) ==
    CASE outcome = "ok"           -> WriteFile(d, localPath, url, TRUE)
      [] outcome = "stream_error" -> WriteFile(d, localPath, url, FALSE)
      [] OTHER                    -> d

\* downloadImage: its return value
downloadImage(outcome) == outcome = "ok"

\* main(), step 2: every entry whose local file exists becomes success.
CheckLocalImages(reg, d) ==
    [i \in DOMAIN reg |->
        IF imageExists(d, reg[i].localPath)
        THEN [reg[i] EXCEPT !.status = "success"]
        ELSE reg[i]]

\* main(), step 2: the number of entries found on disk
ExistingCount(reg, d) ==
    Cardinality({ i \in DOMAIN reg : imageExists(d, reg[i].localPath) })

\* The download loop over every entry, pending or not.
MissingImages_All(reg) == [i \in DOMAIN reg |-> reg[i].url]

\* main(), step 3: the urls of Array.from(imageRegistry.entries()).filter(pending)
MissingImages(reg) ==
    LET F[k \in 0..Len(reg)] ==
            IF k = 0 THEN <<>>
            ELSE IF reg[k].status = "pending" THEN Append(F[k - 1], reg[k].url)
            ELSE F[k - 1]
    IN  F[Len(reg)]

\* A failed download that leaves the entry as it was.
MarkDownloaded_FailureUnmarked(data, success) ==
    IF success THEN [data EXCEPT !.status = "success"] ELSE data

\* main(), step 3: the entry after its download returned success
MarkDownloaded(data, success) ==
    IF success THEN [data EXCEPT !.status = "success"]
    ELSE [data EXCEPT !.status = "failed", !.error = "Download failed"]

SetEntry(reg, url, data) ==
    [i \in DOMAIN reg |-> IF reg[i].url = url THEN data ELSE reg[i]]

\* imagesData whose totalImages counts the downloaded entries only.
ImagesData_TotalDownloaded(reg, total, downloaded, failed) ==
    [totalImages |-> downloaded,
     downloaded  |-> downloaded,
     failed      |-> failed,
     images      |-> [i \in DOMAIN reg |->
                        [url        |-> reg[i].url,
                         localPath  |-> reg[i].localPath,
                         status     |-> reg[i].status,
                         error      |-> reg[i].error,
                         usageCount |-> Len(reg[i].usedIn),
                         usedIn     |-> reg[i].usedIn]]]

\* main(), step 4: imagesData
ImagesData(reg, total, downloaded, failed) ==
    [totalImages |-> total,
     downloaded  |-> downloaded,
     failed      |-> failed,
     images      |-> [i \in DOMAIN reg |->
                        [url        |-> reg[i].url,
                         localPath  |-> reg[i].localPath,
                         status     |-> reg[i].status,
                         error      |-> reg[i].error,
                         usageCount |-> Len(reg[i].usedIn),
                         usedIn     |-> reg[i].usedIn]]]

-----------------------------------------------------------------------------
(* Reading the registry file: localize-images and verify-images *)

\* An element of images that is the JSON value null.
JsonNull == [json |-> "null"]

\* A file whose text JSON.parse rejects, such as a file cut short.
Unparsable == [json |-> "syntax error"]

\* An element of images cut down to its url member.
PartialEntry(img) == [url |-> img.url]

\* img.status, undefined when the object has no such member.
StatusOf(img) == IF "status" \in DOMAIN img THEN img.status ELSE "undefined"

\* imageMap.set(url, localPath)
MapSet(map, url, localPath) ==
    IF \E i \in DOMAIN map : map[i].url = url
    THEN [i \in DOMAIN map |->
            IF map[i].url = url THEN [url |-> url, localPath |-> localPath] ELSE map[i]]
    ELSE Append(map, [url |-> url, localPath |-> localPath])

\* imageMap.get(url): <<>> stands for undefined
MapGet(map, url) ==
    IF \E i \in DOMAIN map : map[i].url = url
    THEN map[CHOOSE i \in DOMAIN map : map[i].url = url].localPath
    ELSE <<>>

\* images.forEach(img => { if (img.status === 'success') imageMap.set(...) })
SuccessMappings(images) ==
    LET F[k \in 0..Len(images)] ==
            IF k = 0 THEN <<>>
            ELSE IF StatusOf(images[k]) = "success"
            THEN MapSet(F[k - 1], images[k].url, images[k].localPath)
            ELSE F[k - 1]
    IN  F[Len(images)]

\* Whether the try block of a registry load throws: readFile on a missing
\* file, JSON.parse on a bad text, img.status on a null element.
LoadThrows(file) ==
    \/ file = NoFile
    \/ file[1] = Unparsable
    \/ \E i \in DOMAIN file[1].images : file[1].images[i] = JsonNull

\* loadImageMapping(): the map it fills when it does not throw
loadImageMapping(file) == SuccessMappings(file[1].images)

\* verify-images main(), step 1: the map it fills when it does not throw
verifyLoadImageMap(file) == SuccessMappings(file[1].images)

-----------------------------------------------------------------------------
(* The localizer: replaceImageUrls *)

\* `../../${localPath}`
LocalImagePath(localPath) == <<"..", "/", "..", "/">> \o localPath

RECURSIVE ReplaceFirstSrc(_, _)
\* attributes.replace(/src="[^"]+"/, `src="${value}"`): the first place where
\* the text  src="  is followed by a value, be it in src or in data-orsrc.
ReplaceFirstSrc(attributes, value) ==
    IF attributes = <<>> THEN <<>>
    ELSE IF Head(attributes).name \in SrcNames /\ Head(attributes).value # <<>>
    THEN <<Attr(Head(attributes).name, value)>> \o Tail(attributes)
    ELSE <<Head(attributes)>> \o ReplaceFirstSrc(Tail(attributes), value)

RECURSIVE RemoveFirstOrsrc(_)
\* attributes.replace(/\s*data-orsrc="[^"]+"/, '')
RemoveFirstOrsrc(attributes) ==
    IF attributes = <<>> THEN <<>>
    ELSE IF Head(attributes).name \in OrsrcNames /\ Head(attributes).value # <<>>
    THEN Tail(attributes)
    ELSE <<Head(attributes)>> \o RemoveFirstOrsrc(Tail(attributes))

\* A tag without a mapping that is emptied.
Missing_Blank(attributes) == [attributes |-> <<>>, counted |-> "missing"]

\* A tag without a mapping that is not counted.
Missing_Silent(attributes) == [attributes |-> attributes, counted |-> "nothing"]

\* replaceImageUrls, else { missing++ }: the attributes stay as they are
Missing(attributes) == [attributes |-> attributes, counted |-> "missing"]

\* The callback of content.replace(/<img([^>]*)>/g, ...) on one tag: the
\* attributes it returns and what it counts.
replaceImageTag(map, attributes) ==
    LET dataOrsrc == MatchAttr(attributes, OrsrcNames)
        src       == MatchAttr(attributes, SrcNames)
    IN  IF dataOrsrc # <<>>
        THEN LET localPath == MapGet(map, dataOrsrc)
             IN  IF localPath # <<>>
                 THEN [attributes |-> RemoveFirstOrsrc(
                                          ReplaceFirstSrc(attributes, LocalImagePath(localPath))),
                       counted    |-> "replacement"]
                 ELSE Missing(attributes)
        ELSE IF src # <<>>
        THEN LET localPath == MapGet(map, replaceNormalizedUrl(src))
             IN  IF localPath # <<>>
                 THEN [attributes |-> ReplaceFirstSrc(attributes, LocalImagePath(localPath)),
                       counted    |-> "replacement"]
                 ELSE Missing(attributes)
        ELSE [attributes |-> attributes, counted |-> "nothing"]

\* replaceImageUrls that leaves out the tags it finds no mapping for.
replaceImageUrls_DropMissing(map, content) ==
    LET r    == AsTuple([i \in DOMAIN content |-> replaceImageTag(map, content[i])])
        kept == SelectSeq(r, LAMBDA t : t.counted # "missing")
    IN  [content          |-> [i \in DOMAIN kept |-> kept[i].attributes],
         replacementsMade |-> Cardinality({ i \in DOMAIN r : r[i].counted = "replacement" }),
         missing          |-> Cardinality({ i \in DOMAIN r : r[i].counted = "missing" })]

\* replaceImageUrls(content): the new content, replacementsMade and missing
replaceImageUrls(map, content) ==
    LET r == AsTuple([i \in DOMAIN content |-> replaceImageTag(map, content[i])])
    IN  [content          |-> [i \in DOMAIN content |-> r[i].attributes],
         replacementsMade |-> Cardinality({ i \in DOMAIN r : r[i].counted = "replacement" }),
         missing          |-> Cardinality({ i \in DOMAIN r : r[i].counted = "missing" })]

RECURSIVE SumOf(_)
SumOf(ns) == IF ns = <<>> THEN 0 ELSE Head(ns) + SumOf(Tail(ns))

\* processQuestion(question): the localized question, and what its calls of
\* replaceImageUrls add to totalReplacements and missingImages
processQuestion(map, question) ==
    LET c == replaceImageUrls(map, question.content)
        o == AsTuple([i \in DOMAIN question.options |->
                         replaceImageUrls(map, question.options[i])])
        e == replaceImageUrls(map, question.explanation)
    IN  [question     |-> Question(c.content,
                                   [i \in DOMAIN o |-> o[i].content],
                                   e.content),
         replacements |-> c.replacementsMade
                            + SumOf([i \in DOMAIN o |-> o[i].replacementsMade])
                            + e.replacementsMade,
         missing      |-> c.missing + SumOf([i \in DOMAIN o |-> o[i].missing]) + e.missing]

-----------------------------------------------------------------------------
(* The verifier: compareFile *)

RECURSIVE LastMatchAttr(_, _)
\* /<img[^>]+src="([^"]+)"/: [^>]+ is greedy, so the match ends at the last
\* place of the tag where the text  src="  is followed by a value.
LastMatchAttr(attributes, names) ==
    IF attributes = <<>> THEN <<>>
    ELSE LET last == attributes[Len(attributes)]
         IN  IF last.name \in names /\ last.value # <<>> THEN last.value
             ELSE LastMatchAttr(SubSeq(attributes, 1, Len(attributes) - 1), names)

RECURSIVE extractImageUrls(_)
\* extractImageUrls(content): one url per tag the expression matches
extractImageUrls(content) ==
    IF content = <<>> THEN <<>>
    ELSE LET url == LastMatchAttr(Head(content), SrcNames)
         IN  (IF url = <<>> THEN <<>> ELSE <<url>>) \o extractImageUrls(Tail(content))

\* The urls compareFile collects for one question: content, options, explanation.
QuestionUrls(question) ==
    extractImageUrls(question.content)
        \o Flatten([i \in DOMAIN question.options |-> extractImageUrls(question.options[i])])
        \o extractImageUrls(question.explanation)

\* localUrl.startsWith('../../images/')
StartsWithImages(localUrl) ==
    /\ Len(localUrl) >= 6
    /\ SubSeq(localUrl, 1, 6) = <<"..", "/", "..", "/", "images", "/">>

\* localUrl.replace('../../', ''): the first occurrence is removed
StripUp(localUrl) ==
    LET i == IndexOf(localUrl, <<"..", "/", "..", "/">>)
    IN  IF i = 0 THEN localUrl
        ELSE SubSeq(localUrl, 1, i - 1) \o SubSeq(localUrl, i + 4, Len(localUrl))

\* compareFile, the body of the inner loop: what one raw/local pair of urls is
CheckOf(map, d, rawUrl, localUrl) ==
    IF ~StartsWithImages(localUrl) THEN "not_localized"
    ELSE IF MapGet(map, getNormalizedUrl(rawUrl)) = StripUp(localUrl)
    THEN (IF StripUp(localUrl) \in DOMAIN d THEN "matched" ELSE "matched_missing_file")
    ELSE "path_mismatch"

NoChecks == [totalImages |-> 0, matched |-> 0, mismatched |-> 0, missingFiles |-> 0,
             checked |-> 0, mismatchedChecked |-> 0, details |-> <<>>]

\* compareFile, one entry of rawImages against localImages: what it adds to
\* results, and (checked, matched, mismatchedChecked, missingFiles) to the
\* module counters.
compareQuestion(map, d, key, rawUrls, localUrls) ==
    IF rawUrls = <<>> THEN NoChecks
    ELSE IF Len(rawUrls) # Len(localUrls)
    THEN [NoChecks EXCEPT !.mismatched = Len(rawUrls),
                          !.details = <<[question |-> key, issue |-> "count_mismatch"]>>]
    ELSE LET c == AsTuple([i \in DOMAIN rawUrls |->
                              CheckOf(map, d, rawUrls[i], localUrls[i])])
             N(kinds) == Cardinality({ i \in DOMAIN c : c[i] \in kinds })
             D[k \in 0..Len(c)] ==
                 IF k = 0 THEN <<>>
                 ELSE IF c[k] \in {"not_localized", "path_mismatch"}
                 THEN Append(D[k - 1], [question |-> key, issue |-> c[k]])
                 ELSE D[k - 1]
         IN  [totalImages       |-> Len(c),
              matched           |-> N({"matched", "matched_missing_file"}),
              mismatched        |-> N({"not_localized", "path_mismatch"}),
              missingFiles      |-> N({"matched_missing_file"}),
              checked           |-> Len(c),
              mismatchedChecked |-> N({"not_localized", "path_mismatch"}),
              details           |-> D[Len(c)]]

\* compareFile(examType, filename, imageMap) once both files are parsed: the
\* raw urls are normalized when collected, the local ones are not.
compareFile(map, d, rawQuestions, localQuestions) ==
    LET r == AsTuple([q \in DOMAIN rawQuestions |->
                 compareQuestion(map, d, q, QuestionUrls(rawQuestions[q]),
                                 IF q \in DOMAIN localQuestions
                                 THEN QuestionUrls(localQuestions[q]) ELSE <<>>)])
    IN  [totalImages       |-> SumOf([q \in DOMAIN r |-> r[q].totalImages]),
         matched           |-> SumOf([q \in DOMAIN r |-> r[q].matched]),
         mismatched        |-> SumOf([q \in DOMAIN r |-> r[q].mismatched]),
         missingFiles      |-> SumOf([q \in DOMAIN r |-> r[q].missingFiles]),
         checked           |-> SumOf([q \in DOMAIN r |-> r[q].checked]),
         mismatchedChecked |-> SumOf([q \in DOMAIN r |-> r[q].mismatchedChecked]),
         details           |-> Flatten([q \in DOMAIN r |-> r[q].details])]

\* verify-images main(), the end-of-run verdict: "Perfect! All image URLs are
\* correctly localized!" unless one of the two module counters is positive.
Verdict(mismatched, missingFiles) ==
    IF mismatched > 0 \/ missingFiles > 0 THEN "issues found" ELSE "perfect"

-----------------------------------------------------------------------------
(* The downloader process *)

Stopped == {"idle", "done", "killed"}

\* processJsonFile: the questions of rawData.results, none when JSON.parse
\* throws (the catch logs the error and the file registers nothing).
RawQuestions == IF rawParses THEN corpus ELSE <<>>

\* The registry kept from the run before.
NewRegistry_Kept == imageRegistry

\* const imageRegistry = new Map()
NewRegistry == <<>>

\* The localizer and the verifier before they are started.
ToolsIdle ==
    /\ lpc = "idle"
    /\ imageMap = <<>>
    /\ localized = <<>>
    /\ totalReplacements = 0
    /\ localizeMissingImages = 0
    /\ totalFailed = 0
    /\ vpc = "idle"
    /\ verifyImageMap = <<>>
    /\ allResults = <<>>
    /\ totalChecks = 0
    /\ matchedImages = 0
    /\ mismatchedImages = 0
    /\ missingLocalFiles = 0

Init ==
    /\ corpus \in Corpora
    /\ rawParses = TRUE
    /\ ToolsIdle
    /\ disk = EmptyDisk
    /\ saved = NoFile
    /\ pc = "idle"
    /\ qi = 0
    /\ imageRegistry = <<>>
    /\ missingImages = <<>>
    /\ di = 0
    /\ downloadedCount = 0
    /\ skippedCount = 0
    /\ failedCount = 0
    /\ attempts = <<>>
    /\ fetched = {}
    /\ existedAtStart = {}
    /\ written = {}
    /\ savedAtStart = NoFile
    /\ cu = <<>>
    /\ cplain = <<>>
    /\ cr = <<>>

\* node download-images: a new process, with the module state as constructed.
StartRun ==
    /\ pc \in Stopped
    /\ pc' = "scan"
    /\ qi' = 0
    /\ imageRegistry' = NewRegistry
    /\ missingImages' = <<>>
    /\ di' = 0
    /\ downloadedCount' = 0
    /\ skippedCount' = 0
    /\ failedCount' = 0
    /\ attempts' = <<>>
    /\ fetched' = {}
    /\ existedAtStart' = DOMAIN disk
    /\ written' = {}
    /\ savedAtStart' = saved
    /\ UNCHANGED <<corpus, rawParses, disk, saved>>
    /\ UNCHANGED <<harnessVars, localizeVars, verifyVars>>

\* processJsonFile: one iteration of the questions loop.
ScanQuestion ==
    /\ pc = "scan"
    /\ qi < Len(RawQuestions)
    /\ qi' = qi + 1
    /\ imageRegistry' = extractAndRegisterImages(imageRegistry, RawQuestions[qi + 1], qi + 1)
    /\ UNCHANGED <<corpus, rawParses, disk, saved, pc, missingImages, di, downloadedCount,
                   skippedCount, failedCount, attempts, fetched, existedAtStart, savedAtStart, written>>
    /\ UNCHANGED <<harnessVars, localizeVars, verifyVars>>

\* main(), steps 2 and 3 up to the download loop.
CheckLocal ==
    /\ pc = "scan"
    /\ qi = Len(RawQuestions)
    /\ imageRegistry' = CheckLocalImages(imageRegistry, disk)
    /\ skippedCount' = skippedCount + ExistingCount(imageRegistry, disk)
    /\ missingImages' = MissingImages(imageRegistry')
    /\ di' = 0
    /\ pc' = "download"
    /\ UNCHANGED <<corpus, rawParses, disk, saved, qi, downloadedCount, failedCount,
                   attempts, fetched, existedAtStart, savedAtStart, written>>
    /\ UNCHANGED <<harnessVars, localizeVars, verifyVars>>

\* main(), step 3: one iteration of the download loop.
Download ==
    /\ pc = "download"
    /\ di < Len(missingImages)
    /\ \E outcome \in Outcomes :
         LET url     == missingImages[di + 1]
             data    == Get(imageRegistry, url)
             success == downloadImage(outcome)
         IN  /\ disk' = DiskAfterDownload(disk, url, data.localPath, outcome)
             /\ imageRegistry' = SetEntry(imageRegistry, url, MarkDownloaded(data, success))
             /\ downloadedCount' = IF success THEN downloadedCount + 1 ELSE downloadedCount
             /\ failedCount' = IF success THEN failedCount ELSE failedCount + 1
             /\ attempts' = Append(attempts, url)
             /\ fetched' = IF IssuesFetch(outcome) THEN fetched \cup {url} ELSE fetched
             /\ written' = IF outcome \in {"ok", "stream_error"}
                           THEN written \cup {<<url, data.localPath>>} ELSE written
    /\ di' = di + 1
    /\ UNCHANGED <<corpus, rawParses, saved, pc, qi, missingImages, skippedCount, existedAtStart, savedAtStart>>
    /\ UNCHANGED <<harnessVars, localizeVars, verifyVars>>

\* main(), step 4: images.json is written once, after the loop.
Save ==
    /\ pc = "download"
    /\ di = Len(missingImages)
    /\ saved' = <<ImagesData(imageRegistry, Len(imageRegistry),
                             downloadedCount + skippedCount, failedCount)>>
    /\ pc' = "done"
    /\ UNCHANGED <<corpus, rawParses, disk, qi, imageRegistry, missingImages, di, downloadedCount,
                   skippedCount, failedCount, attempts, fetched, existedAtStart, savedAtStart, written>>
    /\ UNCHANGED <<harnessVars, localizeVars, verifyVars>>

\* The module state of a process that no longer runs.
MemoryLost ==
    /\ qi' = 0
    /\ imageRegistry' = <<>>
    /\ missingImages' = <<>>
    /\ di' = 0
    /\ downloadedCount' = 0
    /\ skippedCount' = 0
    /\ failedCount' = 0
    /\ attempts' = <<>>
    /\ fetched' = {}
    /\ existedAtStart' = {}
    /\ written' = {}
    /\ savedAtStart' = NoFile

\* The process is terminated between two steps: its memory is lost, the
\* images tree and images.json stay as they are.
Interrupt ==
    /\ pc \in {"scan", "download"}
    /\ pc' = "killed"
    /\ MemoryLost
    /\ UNCHANGED <<corpus, rawParses, disk, saved>>
    /\ UNCHANGED <<harnessVars, localizeVars, verifyVars>>

\* The process is terminated while pipeline() streams a body to the local file.
InterruptDownload ==
    /\ pc = "download"
    /\ di < Len(missingImages)
    /\ LET url  == missingImages[di + 1]
           data == Get(imageRegistry, url)
       IN  disk' = WriteFile(disk, data.localPath, url, FALSE)
    /\ pc' = "killed"
    /\ MemoryLost
    /\ UNCHANGED <<corpus, rawParses, saved>>
    /\ UNCHANGED <<harnessVars, localizeVars, verifyVars>>

Next ==
    \/ StartRun
    \/ ScanQuestion
    \/ CheckLocal
    \/ Download
    \/ Save
    \/ Interrupt
    \/ InterruptDownload

Spec == Init /\ [][Next]_vars

-----------------------------------------------------------------------------
(* Canonicalization harness: the three normalizations applied to one src value *)

Components == {"extractor", "rewriter", "verifier"}

Unset == <<"unset">>

PathElems == { <<"/", "fly">>, <<"/", "@width">>, <<"/", "img">>, <<"/", "q1">>,
               <<"/", "fly", "/", "@width">> }

Paths == UNION { { Flatten(f) : f \in [1..n -> PathElems] } : n \in 0..MaxSegs }

Queries == { <<>>, <<"?", "v">>, <<"?", "v", "?", "v">>,
             <<"?", "v", "/", "fly", "/", "@width", "/">> }

IsPlain(u) == ~Contains(u, ResizeSegment) /\ ~Contains(u, <<"?">>)

\* u with the "/" at position i replaced by "/fly/@width/", and query q appended.
Decorate(u, i, q) == SubSeq(u, 1, i - 1) \o ResizeSegment \o SubSeq(u, i + 1, Len(u)) \o q

PathSlashes(u) == { i \in (Len(Origin) + 1)..Len(u) : u[i] = "/" }

\* The normalization each component applies to a src value.
Normalize(component, src) ==
    CASE component = "extractor" -> extractNormalizedUrl(src)
      [] component = "rewriter"  -> replaceNormalizedUrl(src)
      [] component = "verifier"  -> getNormalizedUrl(src)

NoResults == [once  |-> [c \in Components |-> Unset],
              twice |-> [c \in Components |-> Unset]]

InitCanon ==
    /\ corpus = <<>>
    /\ rawParses = TRUE
    /\ ToolsIdle
    /\ disk = EmptyDisk
    /\ saved = NoFile
    /\ pc = "idle"
    /\ qi = 0
    /\ imageRegistry = <<>>
    /\ missingImages = <<>>
    /\ di = 0
    /\ downloadedCount = 0
    /\ skippedCount = 0
    /\ failedCount = 0
    /\ attempts = <<>>
    /\ fetched = {}
    /\ existedAtStart = {}
    /\ written = {}
    /\ savedAtStart = NoFile
    /\ cr = NoResults
    /\ \E path \in Paths, q \in Queries :
         LET base == Origin \o path
         IN  \/ /\ cu = base \o q
                /\ cplain = <<>>
             \/ /\ IsPlain(base)
                /\ q # <<>>
                /\ \E i \in PathSlashes(base) :
                     /\ cu = Decorate(base, i, q)
                     /\ cplain = base

\* One component normalizes the src value.
NormalizeOnce ==
    /\ \E c \in Components :
         /\ cr.once[c] = Unset
         /\ cr' = [cr EXCEPT !.once[c] = Normalize(c, cu)]
    /\ UNCHANGED <<cu, cplain>>
    /\ UNCHANGED <<pipelineVars, localizeVars, verifyVars>>

\* Each component normalizes its own result again.
NormalizeTwice ==
    /\ \A c \in Components : cr.once[c] # Unset
    /\ cr.twice = NoResults.twice
    /\ cr' = [cr EXCEPT !.twice = [c \in Components |-> Normalize(c, cr.once[c])]]
    /\ UNCHANGED <<cu, cplain>>
    /\ UNCHANGED <<pipelineVars, localizeVars, verifyVars>>

NextCanon ==
    \/ NormalizeOnce
    \/ NormalizeTwice

SpecCanon == InitCanon /\ [][NextCanon]_vars

\* The run left to itself: no termination from outside.
NextRun ==
    \/ StartRun
    \/ ScanQuestion
    \/ CheckLocal
    \/ Download
    \/ Save

\* Every await of the download loop returns: fs calls complete, fetch() settles
\* (it is given a 30 s timeout) and a stream ends or fails, so an iteration of
\* the loop and the save after it are eventually taken.
LiveSpec ==
    /\ Init
    /\ [][NextRun]_vars
    /\ WF_vars(Download)
    /\ WF_vars(Save)

-----------------------------------------------------------------------------
(* The corpus between two runs *)

\* raw/ is edited while no downloader runs: the last question of the raw
\* record is removed.
EditCorpus ==
    /\ pc \in Stopped
    /\ corpus # <<>>
    /\ corpus' = SubSeq(corpus, 1, Len(corpus) - 1)
    /\ UNCHANGED <<rawParses, disk, saved, pc, qi, imageRegistry, missingImages, di,
                   downloadedCount, skippedCount, failedCount, attempts, fetched,
                   existedAtStart, written, savedAtStart>>
    /\ UNCHANGED <<harnessVars, localizeVars, verifyVars>>

\* The text of the raw file is damaged while no downloader runs: JSON.parse
\* throws from then on.
DamageRaw ==
    /\ pc \in Stopped
    /\ rawParses
    /\ rawParses' = FALSE
    /\ UNCHANGED <<corpus, disk, saved, pc, qi, imageRegistry, missingImages, di,
                   downloadedCount, skippedCount, failedCount, attempts, fetched,
                   existedAtStart, written, savedAtStart>>
    /\ UNCHANGED <<harnessVars, localizeVars, verifyVars>>

NextEvolve ==
    \/ StartRun
    \/ ScanQuestion
    \/ CheckLocal
    \/ Download
    \/ Save
    \/ EditCorpus
    \/ DamageRaw

\* Runs of the downloader over a corpus that changes between them.
SpecEvolve == Init /\ [][NextEvolve]_vars

-----------------------------------------------------------------------------
(* The localizer and the verifier processes *)

\* A registry file as step 4 of the downloader wrote it.
Intact(file) ==
    /\ file # NoFile
    /\ file[1] # Unparsable
    /\ \A i \in DOMAIN file[1].images : "status" \in DOMAIN file[1].images[i]

\* The downloader process has ended: its memory is gone, the files stay.
ExitRun ==
    /\ pc \in {"done", "aborted"}
    /\ pc' = "idle"
    /\ MemoryLost
    /\ UNCHANGED <<corpus, rawParses, disk, saved>>
    /\ UNCHANGED <<harnessVars, localizeVars, verifyVars>>

\* .tmp/images.json is damaged while no process runs: the text is cut short,
\* or the first element of images becomes null or loses its members but url.
CorruptRegistry ==
    /\ pc = "idle"
    /\ lpc = "idle"
    /\ vpc = "idle"
    /\ Intact(saved)
    /\ \/ saved' = <<Unparsable>>
       \/ \E i \in DOMAIN saved[1].images \cap {1} :
            \/ saved' = <<[saved[1] EXCEPT !.images[i] = JsonNull]>>
            \/ saved' = <<[saved[1] EXCEPT !.images[i] = PartialEntry(@)]>>
    /\ UNCHANGED <<corpus, rawParses, disk, pc, qi, imageRegistry, missingImages, di,
                   downloadedCount, skippedCount, failedCount, attempts, fetched,
                   existedAtStart, written, savedAtStart>>
    /\ UNCHANGED <<harnessVars, localizeVars, verifyVars>>

\* A catch that logs the error and goes on with an empty map.
LoadErrorExit_GoOn == "files"

\* loadImageMapping, catch: process.exit(1)
LoadErrorExit == "failed"

\* node localize-images, main() step 1: a new process loads the mappings;
\* loadImageMapping's catch ends it with process.exit(1).
StartLocalize ==
    /\ pc = "idle"
    /\ lpc = "idle"
    /\ vpc = "idle"
    /\ totalReplacements' = 0
    /\ localizeMissingImages' = 0
    /\ totalFailed' = 0
    /\ IF LoadThrows(saved)
       THEN lpc' = LoadErrorExit /\ imageMap' = <<>>
       ELSE lpc' = "files" /\ imageMap' = loadImageMapping(saved)
    /\ UNCHANGED localized
    /\ UNCHANGED <<pipelineVars, harnessVars, verifyVars>>

\* A localizer that writes its result over the file it read.
RawAfterWrite_InPlace(questions) == questions

\* processJsonFile writes outputPath, under raw-local-images/: the file at
\* inputPath, under raw/, is as it was.
RawAfterWrite(questions) == corpus

\* What processJsonFile of the localizer can meet: mkdir, readFile or
\* JSON.parse throws, writeFile throws, or nothing throws.
LocalizeOutcomes == {"read_error", "write_error", "ok"}

\* localize-images, main() step 3: processJsonFile on the raw file, and the
\* end of main().
LocalizeFile ==
    /\ lpc = "files"
    /\ \E outcome \in LocalizeOutcomes :
         /\ rawParses \/ outcome = "read_error"
         /\ IF outcome = "read_error"
            THEN UNCHANGED <<localized, totalReplacements, localizeMissingImages, corpus>>
            ELSE LET r == AsTuple([q \in DOMAIN corpus |->
                                      processQuestion(imageMap, corpus[q])])
                 IN  /\ totalReplacements' =
                            totalReplacements + SumOf([q \in DOMAIN r |-> r[q].replacements])
                     /\ localizeMissingImages' =
                            localizeMissingImages + SumOf([q \in DOMAIN r |-> r[q].missing])
                     /\ localized' = IF outcome = "ok"
                                     THEN <<[q \in DOMAIN r |-> r[q].question]>>
                                     ELSE localized
                     /\ corpus' = IF outcome = "ok"
                                  THEN RawAfterWrite([q \in DOMAIN r |-> r[q].question])
                                  ELSE corpus
         /\ totalFailed' = IF outcome = "ok" THEN totalFailed ELSE totalFailed + 1
    /\ lpc' = "done"
    /\ UNCHANGED imageMap
    /\ UNCHANGED <<rawParses, disk, saved, pc, qi, imageRegistry, missingImages, di,
                   downloadedCount, skippedCount, failedCount, attempts, fetched,
                   existedAtStart, written, savedAtStart>>
    /\ UNCHANGED <<harnessVars, verifyVars>>

\* node verify-images, main() step 1: a new process loads the mappings; the
\* catch ends it with process.exit(1).
StartVerify ==
    /\ pc = "idle"
    /\ lpc = "idle"
    /\ vpc = "idle"
    /\ allResults' = <<>>
    /\ totalChecks' = 0
    /\ matchedImages' = 0
    /\ mismatchedImages' = 0
    /\ missingLocalFiles' = 0
    /\ IF LoadThrows(saved)
       THEN vpc' = "failed" /\ verifyImageMap' = <<>>
       ELSE vpc' = "compare" /\ verifyImageMap' = verifyLoadImageMap(saved)
    /\ UNCHANGED <<pipelineVars, harnessVars, localizeVars>>

\* verify-images, main() step 2: compareFile on the raw/localized pair, and
\* the end of main().  A file that cannot be read or parsed leaves the
\* results as they were constructed.
CompareFile ==
    /\ vpc = "compare"
    /\ LET r == IF rawParses /\ localized # <<>>
                THEN compareFile(verifyImageMap, disk, corpus, localized[1])
                ELSE NoChecks
       IN  /\ allResults' = Append(allResults,
                                   [totalImages  |-> r.totalImages,
                                    matched      |-> r.matched,
                                    mismatched   |-> r.mismatched,
                                    missingFiles |-> r.missingFiles,
                                    details      |-> r.details])
           /\ totalChecks' = totalChecks + r.checked
           /\ matchedImages' = matchedImages + r.matched
           /\ mismatchedImages' = mismatchedImages + r.mismatchedChecked
           /\ missingLocalFiles' = missingLocalFiles + r.missingFiles
    /\ vpc' = "done"
    /\ UNCHANGED verifyImageMap
    /\ UNCHANGED <<pipelineVars, harnessVars, localizeVars>>

\* The localizer process has ended, by process.exit(1) or at the end of
\* main(): its memory is gone, the localized record stays.
ExitLocalize ==
    /\ lpc \in {"done", "failed", "aborted"}
    /\ lpc' = "idle"
    /\ imageMap' = <<>>
    /\ totalReplacements' = 0
    /\ localizeMissingImages' = 0
    /\ totalFailed' = 0
    /\ UNCHANGED localized
    /\ UNCHANGED <<pipelineVars, harnessVars, verifyVars>>

\* The verifier process has ended: its memory is gone.
ExitVerify ==
    /\ vpc \in {"done", "failed"}
    /\ vpc' = "idle"
    /\ verifyImageMap' = <<>>
    /\ allResults' = <<>>
    /\ totalChecks' = 0
    /\ matchedImages' = 0
    /\ mismatchedImages' = 0
    /\ missingLocalFiles' = 0
    /\ UNCHANGED <<pipelineVars, harnessVars, localizeVars>>

\* The downloader is run first: no registry file and no localized record
\* has been written yet, and no other process runs.
StartRunFirst ==
    /\ lpc = "idle"
    /\ vpc = "idle"
    /\ localized = <<>>
    /\ saved = NoFile
    /\ StartRun

NextLocalize ==
    \/ StartRunFirst
    \/ ScanQuestion
    \/ CheckLocal
    \/ Download
    \/ Save
    \/ ExitRun
    \/ CorruptRegistry
    \/ StartLocalize
    \/ LocalizeFile
    \/ StartVerify
    \/ CompareFile
    \/ ExitLocalize
    \/ ExitVerify

\* The whole pipeline, one process at a time: the downloader until it has
\* written the registry file, then runs of the localizer and of the verifier.
SpecLocalize == Init /\ [][NextLocalize]_vars

-----------------------------------------------------------------------------
(* Exam directories that cannot be read *)

\* download-images, main() step 1: fs.stat of an entry of raw/ or fs.readdir
\* of an exam directory throws.  Neither call is inside a try: main() rejects
\* and main().catch ends the process with process.exit(1), before step 4.
ScanDirFails ==
    /\ pc = "scan"
    /\ pc' = "aborted"
    /\ UNCHANGED <<corpus, rawParses, disk, saved, qi, imageRegistry, missingImages, di,
                   downloadedCount, skippedCount, failedCount, attempts, fetched,
                   existedAtStart, written, savedAtStart>>
    /\ UNCHANGED <<harnessVars, localizeVars, verifyVars>>

\* localize-images, main() step 3: fs.stat or the fs.readdir of
\* processExamType throws; main().catch ends the process with process.exit(1).
LocalizeDirFails ==
    /\ lpc = "files"
    /\ lpc' = "aborted"
    /\ UNCHANGED <<imageMap, localized, totalReplacements, localizeMissingImages,
                   totalFailed>>
    /\ UNCHANGED <<pipelineVars, harnessVars, verifyVars>>

NextSkip ==
    \/ StartRunFirst
    \/ ScanQuestion
    \/ ScanDirFails
    \/ CheckLocal
    \/ Download
    \/ Save
    \/ ExitRun
    \/ DamageRaw
    \/ StartLocalize
    \/ LocalizeFile
    \/ LocalizeDirFails
    \/ ExitLocalize

\* The downloader and the localizer over raw files that may not parse and
\* exam directories that may not be readable.
SpecSkip == Init /\ [][NextSkip]_vars

-----------------------------------------------------------------------------
(* The images tree between two runs of the verifier *)

\* A file of images/ is deleted while no process runs, after the localized
\* record was written: fs.access(fullPath) of compareFile then throws.
RemoveImage ==
    /\ pc = "idle"
    /\ lpc = "idle"
    /\ vpc = "idle"
    /\ localized # <<>>
    /\ \E p \in DOMAIN disk : disk' = [x \in DOMAIN disk \ {p} |-> disk[x]]
    /\ UNCHANGED <<corpus, rawParses, saved, pc, qi, imageRegistry, missingImages, di,
                   downloadedCount, skippedCount, failedCount, attempts, fetched,
                   existedAtStart, written, savedAtStart>>
    /\ UNCHANGED <<harnessVars, localizeVars, verifyVars>>

\* The raw file is edited while no process runs, after the localized record
\* was written: the localized record is then the older one.
EditRaw ==
    /\ lpc = "idle"
    /\ vpc = "idle"
    /\ localized # <<>>
    /\ EditCorpus

\* The questions an edit adds to the raw file.
AddedQuestions == { Question(<<TagPlain>>, <<>>, <<>>) }

\* A question is appended to the raw file while no process runs, after the
\* localized record was written.
GrowRaw ==
    /\ pc = "idle"
    /\ lpc = "idle"
    /\ vpc = "idle"
    /\ localized # <<>>
    /\ Len(corpus) < MaxQuestions
    /\ \E q \in AddedQuestions : corpus' = Append(corpus, q)
    /\ UNCHANGED <<rawParses, disk, saved, pc, qi, imageRegistry, missingImages, di,
                   downloadedCount, skippedCount, failedCount, attempts, fetched,
                   existedAtStart, written, savedAtStart>>
    /\ UNCHANGED <<harnessVars, localizeVars, verifyVars>>

NextVerify ==
    \/ NextLocalize
    \/ RemoveImage
    \/ EditRaw
    \/ GrowRaw

\* The pipeline of SpecLocalize over an images tree that can lose files and
\* a raw file that can lose and gain questions.
SpecVerify == Init /\ [][NextVerify]_vars

-----------------------------------------------------------------------------
(* Vocabulary of the properties *)

TagsOf(question) ==
    question.content \o Flatten(question.options) \o question.explanation

\* The identifiers of the tags of the first k questions, in document order.
Identifiers(k) ==
    LET E == Flatten([q \in 1..k |-> TagsOf(corpus[q])])
    IN  [i \in DOMAIN E |-> extractIdentifier(E[i])]

IsAbsoluteUrl(url) == url # <<>> /\ ParseUrl(url).ok

Entries == { imageRegistry[i] : i \in DOMAIN imageRegistry }

SavedImages == IF saved = NoFile THEN {} ELSE { saved[1].images[i] : i \in DOMAIN saved[1].images }

Statuses == {"pending", "success", "failed"}

-----------------------------------------------------------------------------
(* C1 *)

\* C1: after any prefix of the embeddings, the registry holds exactly one entry
\* per distinct identifier (an absolute URL), and that entry's usage list has
\* one UsageSite per embedding that carries the identifier.
C1_OneEntryPerIdentifier ==
    \A ids \in {Identifiers(qi)} :
        /\ \A i, j \in DOMAIN imageRegistry :
             imageRegistry[i].url = imageRegistry[j].url => i = j
        /\ \A e \in Entries :
             Len(e.usedIn) = Cardinality({ k \in DOMAIN ids : ids[k] = e.url })
        /\ \A k \in DOMAIN ids :
             IsAbsoluteUrl(ids[k]) => ids[k] \in Urls(imageRegistry)

\* Two embeddings of one identifier in two different questions share one entry.
C1_Witness ==
    \E e \in Entries :
        /\ Len(e.usedIn) = 2
        /\ e.usedIn[1].questionIndex # e.usedIn[2].questionIndex
        /\ Len(imageRegistry) = 1

-----------------------------------------------------------------------------
(* C2 *)

\* C2: every registry key is canonical: it holds no query string and no
\* /fly/@width/ segment, whether it came from data-orsrc or from src.
C2_KeysAreCanonical ==
    \A e \in Entries : ~Contains(e.url, <<"?">>) /\ ~Contains(e.url, ResizeSegment)

-----------------------------------------------------------------------------
(* C3 *)

\* C3: canonicalization is idempotent: normalizing a normalized URL again
\* gives the same URL, in each component.
C3_Idempotent ==
    \A c \in Components : cr.twice[c] # Unset => cr.twice[c] = cr.once[c]

-----------------------------------------------------------------------------
(* C4 *)

\* C4: a URL with one /fly/@width/ segment and a query string normalizes to
\* the plain URL it was made from, as the plain URL itself does, and the
\* Extractor, the Rewriter and the Verifier agree on every src value.
C4_ResizedEqualsPlain ==
    \A c \in Components :
        cr.once[c] # Unset =>
            /\ cplain # <<>> => cr.once[c] = cplain /\ Normalize(c, cplain) = cplain
            /\ cu = UrlResized => cr.once[c] = UrlPlain
            /\ \A d \in Components : cr.once[d] # Unset => cr.once[d] = cr.once[c]

\* https://cdn.ex/fly/@width/img/q1?v has been normalized by all three.
C4_Witness ==
    /\ cu = UrlResized
    /\ cplain = UrlPlain
    /\ \A c \in Components : cr.once[c] = UrlPlain

-----------------------------------------------------------------------------
(* C5 *)

Underscored(hostname) ==
    [i \in DOMAIN hostname |-> IF hostname[i] = "." THEN "_" ELSE hostname[i]]

RECURSIVE CleanPath(_)
\* pathname without its empty segments and without a trailing "/".
CleanPath(pathname) ==
    IF pathname = <<>> THEN <<>>
    ELSE IF Head(pathname) = "/" /\ (Len(pathname) = 1 \/ pathname[2] = "/")
    THEN CleanPath(Tail(pathname))
    ELSE <<Head(pathname)>> \o CleanPath(Tail(pathname))

\* images/<hostname, dots as '_'>/<URL path unchanged>
HostAndPath(url) ==
    \* the singleton binds the parsed URL once
    CHOOSE p \in { <<"images", "/">> \o Underscored(u.hostname) \o u.pathname :
                     u \in {ParseUrl(url)} } : TRUE

\* images/<hostname, dots as '_'>/<URL path, empty segments and trailing "/" dropped>
HostAndCleanPath(url) ==
    CHOOSE p \in { <<"images", "/">> \o Underscored(u.hostname) \o CleanPath(u.pathname) :
                     u \in {ParseUrl(url)} } : TRUE

\* A later registration or run finds the localPath an earlier run persisted.
C5_Stable ==
    \A e \in Entries : \A s \in SavedImages : s.url = e.url => s.localPath = e.localPath

-----------------------------------------------------------------------------
(* C6 *)

\* C6: two registry entries with different URLs never have the same localPath,
\* and no local file is written by the downloads of two different entries.
C6_DistinctUrlsDistinctPaths ==
    /\ \A e1, e2 \in Entries : e1.url # e2.url => e1.localPath # e2.localPath
    /\ \A w1, w2 \in written : w1[2] = w2[2] => w1[1] = w2[1]

-----------------------------------------------------------------------------
(* C7 *)

C7_Step ==
    /\ \A e \in Entries : e.status \in Statuses
    \* an entry is created pending
    /\ \A i \in DOMAIN imageRegistry' :
         imageRegistry'[i].url \notin Urls(imageRegistry)
             => (pc # "scan" /\ pc' = "scan") \/ imageRegistry'[i].status = "pending"
    \* while the run goes on an entry stays, and moves only
    \* pending -> success | failed
    /\ (pc \notin Stopped /\ pc' # "killed") =>
         \A i \in DOMAIN imageRegistry :
             /\ i \in DOMAIN imageRegistry'
             /\ imageRegistry'[i].url = imageRegistry[i].url
             /\ \/ imageRegistry'[i].status = imageRegistry[i].status
                \/ /\ imageRegistry[i].status = "pending"
                   /\ imageRegistry'[i].status \in {"success", "failed"}
    \* a persisted success stays success in the next persisted registry
    /\ (saved # NoFile /\ saved' # NoFile) =>
         \A i \in DOMAIN saved[1].images : \A j \in DOMAIN saved'[1].images :
             (saved[1].images[i].url = saved'[1].images[j].url
                 /\ saved[1].images[i].status = "success")
                 => saved'[1].images[j].status = "success"
    \* a completed run leaves no entry pending
    /\ pc' = "done" =>
         \A i \in DOMAIN imageRegistry' : imageRegistry'[i].status \in {"success", "failed"}

\* C7: statuses are pending, success or failed; an entry is created pending,
\* moves only pending -> success or pending -> failed within a run, a success
\* entry keeps its status, and a completed run leaves no entry pending.
C7_StatusMachine == [][C7_Step]_vars

\* A completed second run with one entry found on disk and one failed.
C7_Witness ==
    /\ pc = "done"
    /\ existedAtStart # {}
    /\ \E e1, e2 \in Entries : e1.status = "success" /\ e2.status = "failed"

-----------------------------------------------------------------------------
(* C8 *)

\* C8: an entry is success only if the file at its local path holds the
\* complete body of a 2xx response for its URL.
C8_SuccessMeansCompleteBody ==
    \A e \in Entries :
        e.status = "success" =>
            /\ e.localPath \in DOMAIN disk
            /\ disk[e.localPath].complete
            /\ disk[e.localPath].url = e.url

-----------------------------------------------------------------------------
(* C9 *)

\* C9: an entry whose local file exists when the run starts is marked success
\* and is never passed to downloadImage nor requested; so no entry that a
\* previous run persisted as success is requested again.
C9_NoRequestForExisting ==
    /\ \A e \in Entries :
         e.localPath \in existedAtStart =>
             /\ pc \in {"download", "done"} => e.status = "success"
             /\ e.url \notin fetched
             /\ \A k \in DOMAIN attempts : attempts[k] # e.url
    /\ pc # "done" =>
         \A s \in SavedImages : s.status = "success" => s.url \notin fetched

\* A second run: one entry persisted success by the first run is skipped while
\* another entry is requested.
C9_Witness ==
    /\ pc = "download"
    /\ fetched # {}
    /\ \E e \in Entries : \E s \in SavedImages :
         /\ s.url = e.url
         /\ s.status = "success"
         /\ e.localPath \in existedAtStart
         /\ e.status = "success"

-----------------------------------------------------------------------------
(* C10 *)

\* What the download loop has done after di iterations.
C10_LoopSoFar ==
    pc \in {"download", "done"} =>
        /\ attempts = SubSeq(missingImages, 1, di)
        /\ \A i, j \in DOMAIN missingImages : missingImages[i] = missingImages[j] => i = j
        /\ \A e \in Entries :
             (e.localPath \notin existedAtStart) <=>
                 (\E k \in DOMAIN missingImages : missingImages[k] = e.url)
        /\ \A k \in 1..di :
             LET e == Get(imageRegistry, missingImages[k])
             IN  /\ e.status \in {"success", "failed"}
                 /\ e.status = "failed" => e.error = "Download failed"

\* C10: every entry pending after the pre-flight check is passed to
\* downloadImage exactly once; a failed attempt marks it failed with an error
\* and the loop goes on; the run reaches the save with each of them success or
\* failed.
C10_OneAttemptEach ==
    /\ [](C10_LoopSoFar /\ (pc = "done" => di = Len(missingImages) /\ saved # NoFile))
    /\ (pc = "download") ~> (pc = "done")

\* A completed run in which a failed download was followed by a successful one.
C10_Witness ==
    /\ pc = "done"
    /\ \E i, j \in DOMAIN missingImages :
         /\ i < j
         /\ Get(imageRegistry, missingImages[i]).status = "failed"
         /\ Get(imageRegistry, missingImages[j]).status = "success"

-----------------------------------------------------------------------------
(* C11 *)

\* C11: when the download loop of a run has ended, every entry that the run
\* before persisted as failed has been passed to downloadImage again in this
\* run, and its status is the new attempt's: success or failed.
C11_FailedIsAttemptedAgain ==
    (pc = "download" /\ di = Len(missingImages)) =>
        \A s \in SavedImages :
            (s.status = "failed" /\ s.url \in Urls(imageRegistry)) =>
                /\ \E k \in DOMAIN attempts : attempts[k] = s.url
                /\ Get(imageRegistry, s.url).status \in {"success", "failed"}

-----------------------------------------------------------------------------
(* C12 *)

\* C12: the registry file is written during the download loop: when a loop of
\* two or more downloads has ended, the file exists and holds the new status
\* of at least one of them, whatever the size of a batch below the size of
\* the loop.
C12_CheckpointedDuringLoop ==
    (pc = "download" /\ di = Len(missingImages) /\ di >= 2) =>
        /\ saved # NoFile
        /\ \E k \in 1..di : \E s \in SavedImages :
             /\ s.url = missingImages[k]
             /\ s.status = Get(imageRegistry, missingImages[k]).status

-----------------------------------------------------------------------------
(* C13 *)

C13_Step ==
    (saved # NoFile /\ saved' # NoFile) =>
        /\ { saved[1].images[i].url : i \in DOMAIN saved[1].images }
               = { saved'[1].images[j].url : j \in DOMAIN saved'[1].images }
        /\ \A i \in DOMAIN saved[1].images : \A j \in DOMAIN saved'[1].images :
             saved[1].images[i].url = saved'[1].images[j].url =>
                 /\ saved'[1].images[j].localPath = saved[1].images[i].localPath
                 /\ saved'[1].images[j].usedIn = saved[1].images[i].usedIn
                 /\ saved'[1].images[j].usageCount = saved[1].images[i].usageCount
                 /\ saved'[1].images[j].usageCount = Len(saved'[1].images[j].usedIn)

\* C13: on an unchanged corpus, a run that writes the registry file over the
\* one of an earlier run writes the same URLs, the same localPath and the
\* same usage sites and usageCount per URL: no UsageSite is added or doubled.
C13_RerunLeavesRegistryEquivalent == [][C13_Step]_vars

\* A later run has written the registry file over the one of an earlier run:
\* an entry used twice was failed before and is success now.
C13_Witness ==
    /\ pc = "done"
    /\ savedAtStart # NoFile
    /\ \E s \in SavedImages : \E i \in DOMAIN savedAtStart[1].images :
         /\ savedAtStart[1].images[i].url = s.url
         /\ savedAtStart[1].images[i].status = "failed"
         /\ s.status = "success"
         /\ s.usageCount = 2

-----------------------------------------------------------------------------
(* C14 *)

\* C14: the registry file a run writes holds every URL of the registry file
\* it found, with every usage site that file recorded for the URL, also when
\* the corpus changed or the raw file stopped parsing in between.
C14_RegistryOnlyGrows ==
    (pc = "done" /\ savedAtStart # NoFile) =>
        \A i \in DOMAIN savedAtStart[1].images :
            \E s \in SavedImages :
                /\ s.url = savedAtStart[1].images[i].url
                /\ \A k \in DOMAIN savedAtStart[1].images[i].usedIn :
                     \E m \in DOMAIN s.usedIn :
                         s.usedIn[m] = savedAtStart[1].images[i].usedIn[k]

-----------------------------------------------------------------------------
(* Vocabulary of the properties: the registry file and the localized record *)

Parsable(file) == file # NoFile /\ file[1] # Unparsable

Unreadable(file) == ~Parsable(file)

\* An element of images that cannot be read as a registry entry.
BadEntry(img) == img = JsonNull \/ "status" \notin DOMAIN img

\* The url -> localPath pairs of the success entries of a parsable file.
SuccessPairs(file) ==
    { <<file[1].images[i].url, file[1].images[i].localPath>> :
        i \in { j \in DOMAIN file[1].images :
                  /\ ~BadEntry(file[1].images[j])
                  /\ file[1].images[j].status = "success" } }

PairsOf(map) == { <<map[i].url, map[i].localPath>> : i \in DOMAIN map }

\* The localPath of the success entry of the registry file for identifier id.
SuccessPathsOf(id) == { p[2] : p \in { x \in SuccessPairs(saved) : x[1] = id } }

\* The localizer has ended and processJsonFile returned true: the localized
\* record is the one this run wrote.
Localized == lpc = "done" /\ totalFailed = 0

\* The image tags of question q, raw and localized, position by position.
TagPairs(q) ==
    AsTuple([i \in DOMAIN TagsOf(corpus[q]) |->
                [raw   |-> TagsOf(corpus[q])[i],
                 local |-> TagsOf(localized[1][q])[i]]])

\* All tag pairs of the record, in document order.
AllTagPairs == Flatten([q \in DOMAIN corpus |-> TagPairs(q)])

ValuesOf(attributes, name) ==
    { attributes[i].value : i \in { j \in DOMAIN attributes : attributes[j].name = name } }

\* The tag has a success entry: its identifier maps to a localPath.
Resolvable(attributes) ==
    /\ extractIdentifier(attributes) # <<>>
    /\ SuccessPathsOf(extractIdentifier(attributes)) # {}

\* The tag carries an identifier for which the registry has no success entry.
Unresolvable(attributes) ==
    /\ extractIdentifier(attributes) # <<>>
    /\ SuccessPathsOf(extractIdentifier(attributes)) = {}

-----------------------------------------------------------------------------
(* C15 *)

\* C15: when the registry file parses and holds an element that cannot be
\* read as an entry, the load of the localizer and of the verifier does not
\* end the process, and the map holds every other success entry.
C15_BadEntryIsSkipped ==
    (Parsable(saved) /\ \E i \in DOMAIN saved[1].images : BadEntry(saved[1].images[i])) =>
        /\ lpc # "idle" => lpc # "failed" /\ PairsOf(imageMap) = SuccessPairs(saved)
        /\ vpc # "idle" => vpc # "failed" /\ PairsOf(verifyImageMap) = SuccessPairs(saved)

-----------------------------------------------------------------------------
(* C16 *)

C16_Step ==
    /\ (Unreadable(saved) /\ (lpc # "idle" \/ lpc' # "idle")) => localized' = localized
    /\ (Unreadable(saved) /\ (vpc # "idle" \/ vpc' # "idle")) =>
           /\ allResults' = <<>>
           /\ totalChecks' = 0

\* C16: with the registry file missing or unparsable, a started localizer or
\* verifier is in its failure exit at once: the localizer never writes the
\* localized record and the verifier never compares a pair.
C16_MissingRegistryIsFatal ==
    /\ [](Unreadable(saved) => lpc \in {"idle", "failed"} /\ vpc \in {"idle", "failed"})
    /\ [][C16_Step]_vars

\* The verifier ended on an unparsable registry file although a localized
\* record, written by an earlier localizer run, was there to compare.
C16_Witness ==
    /\ vpc = "failed"
    /\ saved = <<Unparsable>>
    /\ localized # <<>>

-----------------------------------------------------------------------------
(* C17 *)

\* C17: in the record the localizer wrote, every tag whose identifier has a
\* success entry has src = ../../<localPath> and no data-orsrc, wherever its
\* attributes stand; totalReplacements counts exactly these tags.
C17_ResolvedTagsAreLocal ==
    Localized =>
        \A pairs \in {AllTagPairs} :
            /\ \A i \in DOMAIN pairs :
                 Resolvable(pairs[i].raw) =>
                     /\ ValuesOf(pairs[i].local, "src")
                            = { LocalImagePath(p) :
                                  p \in SuccessPathsOf(extractIdentifier(pairs[i].raw)) }
                     /\ ValuesOf(pairs[i].local, "data-orsrc") = {}
            /\ totalReplacements
                  = Cardinality({ i \in DOMAIN pairs : Resolvable(pairs[i].raw) })

-----------------------------------------------------------------------------
(* C18 *)

\* C18: unresolved tags never end the localizer in failure; in the record it
\* wrote, every tag whose identifier has no success entry stands as in the
\* raw record, and missingImages counts exactly these tags.
C18_UnresolvedTagsAreKept ==
    /\ lpc = "failed" => LoadThrows(saved)
    /\ Localized =>
         /\ localized # <<>>
         /\ \A pairs \in {AllTagPairs} :
              /\ \A i \in DOMAIN pairs :
                   Unresolvable(pairs[i].raw) => pairs[i].local = pairs[i].raw
              /\ localizeMissingImages
                    = Cardinality({ i \in DOMAIN pairs : Unresolvable(pairs[i].raw) })

\* The localizer wrote a record over a registry with a failed entry: one tag
\* was replaced, the tag of the failed entry was kept and counted.
C18_Witness ==
    /\ Localized
    /\ Intact(saved)
    /\ totalReplacements >= 1
    /\ localizeMissingImages >= 1
    /\ \E i \in DOMAIN saved[1].images :
         /\ saved[1].images[i].status = "failed"
         /\ \E j \in DOMAIN AllTagPairs :
              /\ extractIdentifier(AllTagPairs[j].raw) = saved[1].images[i].url
              /\ AllTagPairs[j].local = AllTagPairs[j].raw

-----------------------------------------------------------------------------
(* C19 *)

\* The UsageSites of the registry file the downloader wrote.
UsageSitesRegistered == SumOf([i \in DOMAIN saved[1].images |-> saved[1].images[i].usageCount])

\* C19 as claimed: replacements plus unresolved equals the number of
\* UsageSites the Extractor registered over the same corpus.
C19_AttemptsEqualUsageSites ==
    (Localized /\ Intact(saved)) =>
        totalReplacements + localizeMissingImages = UsageSitesRegistered

\* C19 as amended: replacements plus unresolved equals the number of
\* UsageSites plus the number of tags whose identifier is not an absolute
\* URL; each UsageSite has exactly one rewrite attempt.
C19_AttemptsEqualUsageSitesAndUnregistrable ==
    (Localized /\ Intact(saved)) =>
        \A ids \in {Identifiers(Len(corpus))} :
            totalReplacements + localizeMissingImages
                = UsageSitesRegistered
                    + Cardinality({ i \in DOMAIN ids :
                                      ids[i] # <<>> /\ ~IsAbsoluteUrl(ids[i]) })

\* A record with replaced tags, a tag of a failed entry and a tag with a
\* relative src: more rewrite attempts than UsageSites.
C19_Witness ==
    /\ Localized
    /\ Intact(saved)
    /\ totalReplacements >= 1
    /\ localizeMissingImages >= 2
    /\ \E i \in DOMAIN saved[1].images : saved[1].images[i].status = "failed"
    /\ totalReplacements + localizeMissingImages > UsageSitesRegistered

-----------------------------------------------------------------------------
(* C20 *)

\* C20: the localized record has the questions of the raw record, one for
\* one in the same order, and each question has as many image tags in its
\* content, in each of its options and in its explanation.
C20_SameStructure ==
    localized # <<>> =>
        /\ Len(localized[1]) = Len(corpus)
        /\ \A q \in DOMAIN corpus :
             /\ Len(localized[1][q].content) = Len(corpus[q].content)
             /\ Len(localized[1][q].options) = Len(corpus[q].options)
             /\ \A o \in DOMAIN corpus[q].options :
                  Len(localized[1][q].options[o]) = Len(corpus[q].options[o])
             /\ Len(localized[1][q].explanation) = Len(corpus[q].explanation)

\* A written record whose question has tags in content, in an option and in
\* the explanation, some replaced and some left unresolved.
C20_Witness ==
    /\ Localized
    /\ totalReplacements >= 1
    /\ localizeMissingImages >= 1
    /\ \E q \in DOMAIN corpus :
         /\ corpus[q].content # <<>>
         /\ corpus[q].options # <<>>
         /\ corpus[q].explanation # <<>>
         /\ localized[1][q] # corpus[q]

-----------------------------------------------------------------------------
(* C21 *)

\* The raw corpus, the registry file and the images tree.
C21_Inputs == <<corpus, rawParses, saved, disk>>

C21_Step ==
    /\ (lpc # "idle" \/ lpc' # "idle") => UNCHANGED C21_Inputs
    /\ (vpc # "idle" \/ vpc' # "idle") => UNCHANGED <<C21_Inputs, localized>>

\* C21: no step of the localizer changes the raw corpus, the registry file or
\* the images tree, and no step of the verifier changes them or the localized
\* corpus: a mismatch is reported and the files stay as they are.
C21_ToolsLeaveInputsUnchanged == [][C21_Step]_vars

\* The localizer wrote a record that differs from the raw one and the
\* verifier has reported a mismatch in it.
C21_Witness ==
    /\ vpc = "done"
    /\ localized # <<>>
    /\ localized[1] # corpus
    /\ mismatchedImages >= 1
    /\ allResults # <<>>

-----------------------------------------------------------------------------
(* C22 *)

\* The identifier compareFile collects for one tag of the raw record:
\* getNormalizedUrl of what extractImageUrls captures, <<>> when it captures
\* nothing.
VerifierIdentifier(attributes) ==
    LET url == LastMatchAttr(attributes, SrcNames)
    IN  IF url = <<>> THEN <<>> ELSE getNormalizedUrl(url)

\* C22: once the verifier has compared the raw record, the identifier it
\* derived for each image tag is the one the Extractor registers for that tag.
C22_VerifierDerivesExtractorIdentifier ==
    (vpc = "done" /\ rawParses /\ localized # <<>>) =>
        \A q \in DOMAIN corpus :
            \A t \in DOMAIN TagsOf(corpus[q]) :
                VerifierIdentifier(TagsOf(corpus[q])[t])
                    = extractIdentifier(TagsOf(corpus[q])[t])

-----------------------------------------------------------------------------
(* C23 *)

\* The verifier has compared a raw record with the localized record.
Compared == vpc = "done" /\ rawParses /\ localized # <<>>

\* The localized record has the questions of the raw record, each with as
\* many image tags.
SameShape ==
    /\ Len(localized[1]) = Len(corpus)
    /\ \A q \in DOMAIN corpus :
         Len(TagsOf(localized[1][q])) = Len(TagsOf(corpus[q]))

\* The localPath of the registry file's entry for identifier id.
RegistryPathsOf(id) ==
    { saved[1].images[i].localPath :
        i \in { j \in DOMAIN saved[1].images :
                  /\ ~BadEntry(saved[1].images[j])
                  /\ saved[1].images[j].url = id } }

\* The usage site is matched in the sense of the claim: the localized src is
\* a local path, it names the registry's localPath for the site's identifier,
\* and the file is on disk.
C23_IsMatched(pair) ==
    LET id  == extractIdentifier(pair.raw)
        src == MatchAttr(pair.local, {"src"})
    IN  /\ id # <<>>
        /\ StartsWithImages(src)
        /\ StripUp(src) \in RegistryPathsOf(id)
        /\ StripUp(src) \in DOMAIN disk

\* C23: the number of usage sites the verifier counts as matched is the
\* number of usage sites whose localized src is local, names the registry's
\* localPath for the site's identifier, and whose file exists.
C23_MatchedIffLocalRightPathAndFile ==
    (Compared /\ Parsable(saved) /\ SameShape) =>
        \A pairs \in {AllTagPairs} :
            matchedImages = Cardinality({ i \in DOMAIN pairs : C23_IsMatched(pairs[i]) })

-----------------------------------------------------------------------------
(* C24 *)

\* The number of details of the given issue in the verifier's last result.
IssuesReported(issue) ==
    LET details == allResults[Len(allResults)].details
    IN  Cardinality({ i \in DOMAIN details : details[i].issue = issue })

\* The localized src is still a remote URL and the registry maps the site's
\* identifier.
C24_IsNotLocalized(pair) ==
    LET id  == extractIdentifier(pair.raw)
        src == MatchAttr(pair.local, {"src"})
    IN  /\ id # <<>>
        /\ IsAbsoluteUrl(src)
        /\ SuccessPathsOf(id) # {}

\* The localized src is local and names another path than the registry's
\* localPath for the site's identifier.
C24_IsPathMismatch(pair) ==
    LET id  == extractIdentifier(pair.raw)
        src == MatchAttr(pair.local, {"src"})
    IN  /\ id # <<>>
        /\ StartsWithImages(src)
        /\ StripUp(src) \notin RegistryPathsOf(id)

\* C24: the verifier reports not_localized for exactly the usage sites whose
\* localized src is remote although the registry maps their identifier, and
\* path_mismatch for exactly those whose local src names another path than
\* the registry's.
C24_IssuesAreExact ==
    (Compared /\ Parsable(saved)) =>
        \A pairs \in {AllTagPairs} :
            /\ IssuesReported("not_localized")
                   = Cardinality({ i \in DOMAIN pairs : C24_IsNotLocalized(pairs[i]) })
            /\ IssuesReported("path_mismatch")
                   = Cardinality({ i \in DOMAIN pairs : C24_IsPathMismatch(pairs[i]) })

-----------------------------------------------------------------------------
(* C25 *)

\* The number of embeddings the verifier collects for question q of a record.
EmbeddingsOf(questions, q) ==
    IF q \in DOMAIN questions THEN Len(QuestionUrls(questions[q])) ELSE 0

\* The issues of the verifier's last result for question q.
IssuesOf(q) ==
    LET details == allResults[Len(allResults)].details
    IN  { details[i].issue : i \in { j \in DOMAIN details : details[j].question = q } }

\* C25: for every question of the raw or of the localized record whose
\* numbers of embeddings differ, the verifier's result holds a count_mismatch
\* and no position-by-position issue.
C25_CountMismatchIsRecorded ==
    Compared =>
        \A q \in DOMAIN corpus \cup DOMAIN localized[1] :
            EmbeddingsOf(corpus, q) # EmbeddingsOf(localized[1], q)
                => IssuesOf(q) = {"count_mismatch"}

-----------------------------------------------------------------------------
(* C26 *)

\* Every image tag of the corpus references an absolute remote URL.
AbsoluteCorpus ==
    \A q \in DOMAIN corpus :
        \A t \in DOMAIN TagsOf(corpus[q]) :
            /\ IsAbsoluteUrl(extractIdentifier(TagsOf(corpus[q])[t]))
            /\ IsAbsoluteUrl(MatchAttr(TagsOf(corpus[q])[t], {"src"}))

\* The downloader succeeded on every entry of the registry file.
AllFetched ==
    /\ Intact(saved)
    /\ \A i \in DOMAIN saved[1].images : saved[1].images[i].status = "success"

\* C26: over a corpus of absolute remote URLs whose downloads all succeeded,
\* the localizer ends with every image tag on a local path and no unresolved
\* reference, and the verifier ends with every usage site matched, nothing
\* mismatched and no file missing.
C26_EndToEnd ==
    (AbsoluteCorpus /\ AllFetched) =>
        /\ Localized =>
             /\ localizeMissingImages = 0
             /\ \A pairs \in {AllTagPairs} :
                  \A i \in DOMAIN pairs :
                      StartsWithImages(MatchAttr(pairs[i].local, {"src"}))
        /\ Compared =>
             /\ matchedImages = UsageSitesRegistered
             /\ mismatchedImages = 0
             /\ allResults[Len(allResults)].mismatched = 0
             /\ missingLocalFiles = 0

-----------------------------------------------------------------------------
(* C27 *)

\* C27: a raw file that does not parse or an exam directory that cannot be
\* read does not abort the Extractor or the Rewriter: no run of either ends
\* in main().catch before the remaining files are processed.
C27_UnreadableIsSkipped ==
    /\ pc # "aborted"
    /\ lpc # "aborted"

-----------------------------------------------------------------------------
(* C28 *)

\* C28: when the verifier's verdict is that all image URLs are correctly
\* localized, the raw/localized pair could be read and compared, its result
\* holds no mismatch of any kind and no local file is missing.
C28_PerfectMeansNoIssue ==
    (vpc = "done" /\ Verdict(mismatchedImages, missingLocalFiles) = "perfect") =>
        /\ rawParses
        /\ localized # <<>>
        /\ allResults[Len(allResults)].mismatched = 0
        /\ allResults[Len(allResults)].details = <<>>
        /\ allResults[Len(allResults)].missingFiles = 0

-----------------------------------------------------------------------------
(* C29 *)

\* The number of entries of the persisted document with the given status.
SavedWithStatus(status) ==
    Cardinality({ i \in DOMAIN saved[1].images : saved[1].images[i].status = status })

\* C29: in the registry document the downloader wrote, totalImages is the
\* number of entries, downloaded the number of success entries, failed the
\* number of failed entries, the two add up to totalImages, every usageCount
\* is the length of usedIn and at least 1, and an entry has an error iff its
\* status is failed.
C29_DocumentIsConsistent ==
    saved # NoFile =>
        /\ saved[1].totalImages = Len(saved[1].images)
        /\ saved[1].downloaded = SavedWithStatus("success")
        /\ saved[1].failed = SavedWithStatus("failed")
        /\ saved[1].downloaded + saved[1].failed = saved[1].totalImages
        /\ \A i \in DOMAIN saved[1].images :
             /\ saved[1].images[i].usageCount = Len(saved[1].images[i].usedIn)
             /\ saved[1].images[i].usageCount >= 1
             /\ saved[1].images[i].error # NoError
                    <=> saved[1].images[i].status = "failed"

\* A document of a second run with a success entry found on disk, a failed
\* entry and an entry used by two sites.
C29_Witness ==
    /\ saved # NoFile
    /\ savedAtStart # NoFile
    /\ pc = "done"
    /\ skippedCount >= 1
    /\ SavedWithStatus("success") >= 1
    /\ SavedWithStatus("failed") >= 1
    /\ \E i \in DOMAIN saved[1].images : saved[1].images[i].usageCount >= 2

-----------------------------------------------------------------------------
(* C30 *)

\* C30: the localizer's rewrite applied, with the map of the same run, to the
\* record it has just written gives that record again and counts no
\* replacement.
C30_RewriteIsIdempotent ==
    (Localized /\ localized # <<>>) =>
        \A q \in DOMAIN localized[1] :
            \A again \in {processQuestion(imageMap, localized[1][q])} :
                /\ again.question = localized[1][q]
                /\ again.replacements = 0

====
